---- MODULE Spec2Model ----
(***************************************************************************)
(* Parachute release for ArduPlane.                                        *)
(*                                                                         *)
(*   AP_Parachute  (src/unnamed/part_000, lines 1-201): the release        *)
(*                 controller: enabled(), release(), update().             *)
(*   Plane         (src/ArduPlane/parachute.cpp): parachute_release(),     *)
(*                 parachute_manual_release(), parachute_emergency_check() *)
(*                 and the scheduler task parachute_check().               *)
(*                                                                         *)
(* Lines 203-314 of part_000 hold an earlier revision of                   *)
(* ArduPlane/parachute.cpp; the model follows the final revision.          *)
(***************************************************************************)
EXTENDS Integers, Sequences, FiniteSets, TLC

VARIABLES
    parachute,   \* the AP_Parachute object: parameters and private members
    notify,      \* AP_Notify::flags.parachute_release
    actuator,    \* the release output (relay pin / servo position): "ON" or "OFF"
    now,         \* AP_HAL::millis()
    veh,         \* the Plane state the parachute code reads
    out,         \* what the last call did: name, argument, result, texts, commands
    seq,         \* history: the release sequence requested from idle, by the clock
    attempt_since, \* history: clock of the first of the current run of release attempts
    nticks       \* number of clock advances so far

vars == <<parachute, notify, actuator, now, veh, out, seq, attempt_since, nticks>>

----------------------------------------------------------------------------
(* Bounds of the model *)

\* millis() is a uint32_t; the model counts modulo 2^ClockWidth
ClockWidth == 13

\* number of clock advances in a behaviour
MaxTicks == 6

UINT32_MOD == 2 ^ ClockWidth

\* clock advances between two calls, chosen to land on both sides of every threshold
TickSteps == {1, 499, 1000, 1999}

\* the clock at start: three ticks before the counter wraps to 0
ClockStarts == {UINT32_MOD - 3}

----------------------------------------------------------------------------
(* Program constants *)

PARACHUTE_CHECK_TRIGGER_MS == 1000
PARACHUTE_EMERGENCY_DURATION_MS == 2000

\* AP_Parachute.h
AP_PARACHUTE_RELEASE_DURATION_MS == 2000
AP_PARACHUTE_TRIGGER_TYPE_RELAY_3 == 3
AP_PARACHUTE_TRIGGER_TYPE_SERVO == 10

----------------------------------------------------------------------------
(* uint32_t arithmetic *)

u32(x) == x % UINT32_MOD

\* a - b on uint32_t
u32sub(a, b) == (a - b + UINT32_MOD) % UINT32_MOD

\* a + b on uint32_t
u32add(a, b) == (a + b) % UINT32_MOD

labs(x) == IF x < 0 THEN -x ELSE x

----------------------------------------------------------------------------
(* The calls work on a record w: the AP_Parachute object p, the notify    *)
(* flag, the actuator, and what the call emitted so far (gcs texts,       *)
(* actuator commands, calls of AP_Parachute::release, release attempts).  *)

World(p, n, a) ==
    [p |-> p, notify |-> n, actuator |-> a,
     gcs |-> <<>>, cmds |-> <<>>, rel |-> 0, attempt |-> FALSE]

gcs_send_text(w, text) == [w EXCEPT !.gcs = Append(@, text)]

\* RC_Channel_aux::set_radio(k_parachute_release, pwm)
servo_set(w, on) ==
    [w EXCEPT !.cmds = Append(@, [dev |-> "servo", ch |-> 0, on |-> on]),
              !.actuator = IF on THEN "ON" ELSE "OFF"]

\* _relay.on(ch) / _relay.off(ch)
relay_set(w, ch, on) ==
    [w EXCEPT !.cmds = Append(@, [dev |-> "relay", ch |-> ch, on |-> on]),
              !.actuator = IF on THEN "ON" ELSE "OFF"]

\* the trigger-type dispatch of update()
trigger(w, on) ==
    IF w.p.release_type = AP_PARACHUTE_TRIGGER_TYPE_SERVO
    THEN servo_set(w, on)
    ELSE IF w.p.release_type <= AP_PARACHUTE_TRIGGER_TYPE_RELAY_3
         THEN relay_set(w, w.p.release_type, on)
         ELSE w

\* enabled() clearing released as well
enabled_clearing(w, on_off) ==
    [w EXCEPT !.p.enabled = IF on_off THEN 1 ELSE 0,
              !.p.release_time = 0,
              !.p.released = FALSE]

\* AP_Parachute::enabled(bool on_off)
enabled(w, on_off) ==
    [w EXCEPT !.p.enabled = IF on_off THEN 1 ELSE 0,
              !.p.release_time = 0]

\* release() without the enabled test
release_unguarded(w, t) ==
    [w EXCEPT !.rel = @ + 1,
              !.p.release_time = IF @ = 0 THEN t ELSE @,
              !.p.release_initiated = TRUE,
              !.notify = 1]

\* release() stamping the clock on every call
release_restamp(w, t) ==
    IF w.p.enabled <= 0
    THEN [w EXCEPT !.rel = @ + 1]
    ELSE [w EXCEPT !.rel = @ + 1,
                   !.p.release_time = t,
                   !.p.release_initiated = TRUE,
                   !.notify = 1]

\* AP_Parachute::release()
release(w, t) ==
    IF w.p.enabled <= 0
    THEN [w EXCEPT !.rel = @ + 1]
    ELSE [w EXCEPT !.rel = @ + 1,
                   !.p.release_time = IF @ = 0 THEN t ELSE @,
                   !.p.release_initiated = TRUE,
                   !.notify = 1]

\* uint32_t delay_ms = _delay_ms<=0 ? 0: (uint32_t)_delay_ms;
delay_of(p) == IF p.delay_ms <= 0 THEN 0 ELSE u32(p.delay_ms)

\* update() comparing the clock with the absolute times of the sequence
update_absolute(w, t) ==
    LET delay_ms == delay_of(w.p)
    IN  IF w.p.enabled <= 0
        THEN w
        ELSE IF w.p.release_time # 0 /\ ~w.p.release_in_progress
        THEN IF t >= w.p.release_time + delay_ms
             THEN [trigger(w, TRUE) EXCEPT !.p.release_in_progress = TRUE,
                                           !.p.released = TRUE]
             ELSE w
        ELSE IF w.p.release_time = 0
                \/ t >= w.p.release_time + delay_ms + AP_PARACHUTE_RELEASE_DURATION_MS
        THEN [trigger(w, FALSE) EXCEPT !.p.release_in_progress = FALSE,
                                       !.p.release_time = 0,
                                       !.notify = 0]
        ELSE w

\* update() asserting the actuator without setting released
update_nolatch(w, t) ==
    LET time_diff == u32sub(t, w.p.release_time)
        delay_ms  == delay_of(w.p)
    IN  IF w.p.enabled <= 0
        THEN w
        ELSE IF w.p.release_time # 0 /\ ~w.p.release_in_progress
        THEN IF time_diff >= delay_ms
             THEN [trigger(w, TRUE) EXCEPT !.p.release_in_progress = TRUE]
             ELSE w
        ELSE IF w.p.release_time = 0
                \/ time_diff >= u32add(delay_ms, AP_PARACHUTE_RELEASE_DURATION_MS)
        THEN [trigger(w, FALSE) EXCEPT !.p.release_in_progress = FALSE,
                                       !.p.release_time = 0,
                                       !.notify = 0]
        ELSE w

\* update() clearing released together with release_in_progress
update_unlatch(w, t) ==
    LET time_diff == u32sub(t, w.p.release_time)
        delay_ms  == delay_of(w.p)
    IN  IF w.p.enabled <= 0
        THEN w
        ELSE IF w.p.release_time # 0 /\ ~w.p.release_in_progress
        THEN IF time_diff >= delay_ms
             THEN [trigger(w, TRUE) EXCEPT !.p.release_in_progress = TRUE,
                                           !.p.released = TRUE]
             ELSE w
        ELSE IF w.p.release_time = 0
                \/ time_diff >= u32add(delay_ms, AP_PARACHUTE_RELEASE_DURATION_MS)
        THEN [trigger(w, FALSE) EXCEPT !.p.release_in_progress = FALSE,
                                       !.p.released = FALSE,
                                       !.p.release_time = 0,
                                       !.notify = 0]
        ELSE w

\* AP_Parachute::update()
update(w, t) ==
    LET time_diff == u32sub(t, w.p.release_time)
        delay_ms  == delay_of(w.p)
    IN  IF w.p.enabled <= 0
        THEN w
        ELSE IF w.p.release_time # 0 /\ ~w.p.release_in_progress
        THEN IF time_diff >= delay_ms
             THEN [trigger(w, TRUE) EXCEPT !.p.release_in_progress = TRUE,
                                           !.p.released = TRUE]
             ELSE w
        ELSE IF w.p.release_time = 0
                \/ time_diff >= u32add(delay_ms, AP_PARACHUTE_RELEASE_DURATION_MS)
        THEN [trigger(w, FALSE) EXCEPT !.p.release_in_progress = FALSE,
                                       !.p.release_time = 0,
                                       !.notify = 0]
        ELSE w

----------------------------------------------------------------------------
(* Plane.  The accessors of AP_Parachute.h (enabled(), released(),        *)
(* auto_enabled(), alt_min(), alt_max(), control_loss_ms(), ...) are read  *)
(* as the members they return.                                             *)

\* parachute_release() rejecting the lower bound itself
parachute_release_strict(w, v, t) ==
    IF w.p.released
    THEN w
    ELSE IF v.relative_altitude <= w.p.alt_min
    THEN gcs_send_text(w, "Parachute: Too low")
    ELSE IF w.p.alt_max >= 0 /\ v.relative_altitude > w.p.alt_max
    THEN gcs_send_text(w, "Parachute: Too high")
    ELSE release(gcs_send_text(w, "Parachute: Released"), t)

\* parachute_release() without the upper altitude bound
parachute_release_nomax(w, v, t) ==
    IF w.p.released
    THEN w
    ELSE IF v.relative_altitude < w.p.alt_min
    THEN gcs_send_text(w, "Parachute: Too low")
    ELSE release(gcs_send_text(w, "Parachute: Released"), t)

\* Plane::parachute_release()
parachute_release(w, v, t) ==
    IF w.p.released
    THEN w
    ELSE IF v.relative_altitude < w.p.alt_min
    THEN gcs_send_text(w, "Parachute: Too low")
    ELSE IF w.p.alt_max >= 0 /\ v.relative_altitude > w.p.alt_max
    THEN gcs_send_text(w, "Parachute: Too high")
    ELSE release(gcs_send_text(w, "Parachute: Released"), t)

\* parachute_manual_release() without the is_flying() test
parachute_manual_release_noflying(w, v, t) ==
    IF w.p.enabled = 0 \/ w.p.released
    THEN [w |-> w, ret |-> FALSE]
    ELSE [w |-> parachute_release(w, v, t), ret |-> TRUE]

\* Plane::parachute_manual_release(): the world after the call and the result
parachute_manual_release(w, v, t) ==
    IF w.p.enabled = 0 \/ w.p.released
    THEN [w |-> w, ret |-> FALSE]
    ELSE IF ~v.is_flying
    THEN [w |-> gcs_send_text(w, "Parachute: Not flying"), ret |-> FALSE]
    ELSE [w |-> parachute_release(w, v, t), ret |-> TRUE]

\* within_limits() counting a roll at the limit itself as within
within_limits_inclusive(p, v) ==
    /\ labs(v.roll_sensor) <= v.roll_limit_cd + p.emergency_roll_margin
    /\ v.pitch_sensor > v.pitch_limit_min_cd - p.emergency_pitch_margin
    /\ v.sink_rate < p.emergency_sink_rate

\* the three tests of lines 105-107: the vehicle is within every emergency limit
within_limits(p, v) ==
    /\ labs(v.roll_sensor) < v.roll_limit_cd + p.emergency_roll_margin
    /\ v.pitch_sensor > v.pitch_limit_min_cd - p.emergency_pitch_margin
    /\ v.sink_rate < p.emergency_sink_rate

\* control_lost() entering emergency mode at PARACHUTE_CHECK_TRIGGER_MS itself
control_lost_early(w, v, t) ==
    LET w1 == IF w.p.control_loss_ms = 0
              THEN [gcs_send_text(w, "Emergency: Starting to lose control")
                        EXCEPT !.p.control_loss_ms = t]
              ELSE w
        emergency_mode == u32sub(t, w1.p.control_loss_ms) >= PARACHUTE_CHECK_TRIGGER_MS
        w2 == IF emergency_mode
              THEN [w1 EXCEPT !.p.emergency_start_ms = t]
              ELSE w1
    IN  IF emergency_mode
           /\ u32sub(t, w2.p.emergency_start_ms) < PARACHUTE_EMERGENCY_DURATION_MS
        THEN parachute_release(
                 [gcs_send_text(w2, "Emergency: Trying to release parachute")
                      EXCEPT !.attempt = TRUE], v, t)
        ELSE IF emergency_mode
        THEN gcs_send_text(w2, "Emergency: Control restored")
        ELSE w2

\* lines 113-133 of Plane::parachute_emergency_check(): control is lost
control_lost(w, v, t) ==
    LET w1 == IF w.p.control_loss_ms = 0
              THEN [gcs_send_text(w, "Emergency: Starting to lose control")
                        EXCEPT !.p.control_loss_ms = t]
              ELSE w
        emergency_mode == u32sub(t, w1.p.control_loss_ms) > PARACHUTE_CHECK_TRIGGER_MS
        w2 == IF emergency_mode
              THEN [w1 EXCEPT !.p.emergency_start_ms = t]
              ELSE w1
    IN  IF emergency_mode
           /\ u32sub(t, w2.p.emergency_start_ms) < PARACHUTE_EMERGENCY_DURATION_MS
        THEN parachute_release(
                 [gcs_send_text(w2, "Emergency: Trying to release parachute")
                      EXCEPT !.attempt = TRUE], v, t)
        ELSE IF emergency_mode
        THEN gcs_send_text(w2, "Emergency: Control restored")
        ELSE w2

\* parachute_emergency_check() without the AUTO mode test
parachute_emergency_check_anymode(w, v, t) ==
    LET reset == [w EXCEPT !.p.control_loss_ms = 0]
    IN  IF w.p.auto_enabled = 0 \/ w.p.released
        THEN reset
        ELSE IF ~v.takeoff_complete \/ v.land_complete \/ v.nav_cmd = "NAV_LAND"
        THEN reset
        ELSE LET w1 == gcs_send_text(w, "Roll")
             IN  IF within_limits(w1.p, v)
                 THEN [w1 EXCEPT !.p.control_loss_ms = 0]
                 ELSE control_lost(w1, v, t)

\* Plane::parachute_emergency_check()
parachute_emergency_check(w, v, t) ==
    LET reset == [w EXCEPT !.p.control_loss_ms = 0]
    IN  IF w.p.auto_enabled = 0 \/ w.p.released
        THEN reset
        ELSE IF v.control_mode # "AUTO"
        THEN reset
        ELSE IF ~v.takeoff_complete \/ v.land_complete \/ v.nav_cmd = "NAV_LAND"
        THEN reset
        ELSE LET w1 == gcs_send_text(w, "Roll")
             IN  IF within_limits(w1.p, v)
                 THEN [w1 EXCEPT !.p.control_loss_ms = 0]
                 ELSE control_lost(w1, v, t)

\* Plane::parachute_check()
parachute_check(w, v, t) == parachute_emergency_check(update(w, t), v, t)

----------------------------------------------------------------------------
(* History variables *)

NoSeq == [phase |-> "none", t0 |-> 0]

\* the controller is idle: nothing pending, nothing actuated
Idle(p, a) == p.release_time = 0 /\ ~p.release_in_progress /\ a = "OFF"

\* release() at clock t on an enabled, idle controller starts a sequence
SeqOnRelease(s, p, a, t) ==
    IF p.enabled > 0 /\ Idle(p, a) /\ s.phase \in {"none", "done"}
    THEN [phase |-> "pending", t0 |-> t]
    ELSE s

\* update() at clock t moves the sequence on by the clock alone
SeqOnUpdate(s, p, t) ==
    LET D == IF p.delay_ms < 0 THEN 0 ELSE p.delay_ms
        e == u32sub(t, s.t0)
    IN  IF s.phase = "pending" /\ e >= D
        THEN [s EXCEPT !.phase = "asserted"]
        ELSE IF s.phase = "asserted" /\ e >= D + AP_PARACHUTE_RELEASE_DURATION_MS
        THEN [s EXCEPT !.phase = "done"]
        ELSE s

NoCall == [op |-> "none", arg |-> FALSE, ret |-> FALSE,
           gcs |-> <<>>, cmds |-> <<>>, rel |-> 0, attempt |-> FALSE]

Called(name, arg, ret, w) ==
    [op |-> name, arg |-> arg, ret |-> ret,
     gcs |-> w.gcs, cmds |-> w.cmds, rel |-> w.rel, attempt |-> w.attempt]

----------------------------------------------------------------------------
(* Initial states: the object as constructed from its parameters *)

Parachute0(en, type, delay, amin, amax, auto) ==
    [enabled |-> en, release_type |-> type, delay_ms |-> delay,
     alt_min |-> amin, alt_max |-> amax, auto_enabled |-> auto,
     emergency_roll_margin |-> 1000, emergency_pitch_margin |-> 1000,
     emergency_sink_rate |-> 5,
     release_time |-> 0, release_in_progress |-> FALSE, released |-> FALSE,
     release_initiated |-> FALSE, control_loss_ms |-> 0, emergency_start_ms |-> 0]

Vehicle(alt, fly, mode, tko, land, nav, roll, pitch, sink) ==
    [relative_altitude |-> alt, is_flying |-> fly, control_mode |-> mode,
     takeoff_complete |-> tko, land_complete |-> land, nav_cmd |-> nav,
     roll_sensor |-> roll, pitch_sensor |-> pitch, sink_rate |-> sink,
     roll_limit_cd |-> 4500, pitch_limit_min_cd |-> -2500]

\* in cruise under AUTO at 50 m, wings level
Cruise == Vehicle(50, TRUE, "AUTO", TRUE, FALSE, "NAV_WAYPOINT", 0, 0, 0)

InitWith(Enableds, Types, Delays, AltMaxs, Autos, Vehicles) ==
    /\ parachute \in {Parachute0(en, ty, d, 10, amax, au) :
                        en \in Enableds, ty \in Types, d \in Delays,
                        amax \in AltMaxs, au \in Autos}
    /\ notify = 0
    /\ actuator = "OFF"
    /\ now \in ClockStarts
    /\ veh \in Vehicles
    /\ out = NoCall
    /\ seq = NoSeq
    /\ attempt_since = -1
    /\ nticks = 0

----------------------------------------------------------------------------
(* Actions: one per call *)

Apply(w) ==
    /\ parachute' = w.p
    /\ notify' = w.notify
    /\ actuator' = w.actuator

Here == World(parachute, notify, actuator)

\* parachute.enabled(on_off)
CallEnabled ==
    \E on_off \in BOOLEAN :
        LET w == enabled(Here, on_off)
        IN  /\ Apply(w)
            /\ out' = Called("enabled", on_off, FALSE, w)
            /\ seq' = NoSeq
            /\ UNCHANGED <<now, veh, attempt_since, nticks>>

\* parachute.release()
CallRelease ==
    LET w == release(Here, now)
    IN  /\ Apply(w)
        /\ out' = Called("release", FALSE, FALSE, w)
        /\ seq' = SeqOnRelease(seq, parachute, actuator, now)
        /\ UNCHANGED <<now, veh, attempt_since, nticks>>

\* parachute.update()
CallUpdate ==
    LET w == update(Here, now)
    IN  /\ Apply(w)
        /\ out' = Called("update", FALSE, FALSE, w)
        /\ seq' = SeqOnUpdate(seq, parachute, now)
        /\ UNCHANGED <<now, veh, attempt_since, nticks>>

\* plane.parachute_manual_release()
CallManualRelease ==
    LET r == parachute_manual_release(Here, veh, now)
    IN  /\ Apply(r.w)
        /\ out' = Called("parachute_manual_release", FALSE, r.ret, r.w)
        /\ seq' = NoSeq
        /\ UNCHANGED <<now, veh, attempt_since, nticks>>

\* plane.parachute_check(), the scheduler task
CallParachuteCheck ==
    LET w == parachute_check(Here, veh, now)
    IN  /\ Apply(w)
        /\ out' = Called("parachute_check", FALSE, FALSE, w)
        /\ seq' = NoSeq
        /\ attempt_since' = IF w.attempt
                            THEN (IF attempt_since = -1 THEN now ELSE attempt_since)
                            ELSE -1
        /\ UNCHANGED <<now, veh, nticks>>

\* the millisecond clock advances by one of Steps
TickBy(Steps) ==
    /\ nticks < MaxTicks
    /\ \E dt \in Steps : now' = u32add(now, dt)
    /\ nticks' = nticks + 1
    /\ out' = [NoCall EXCEPT !.op = "tick"]
    /\ UNCHANGED <<parachute, notify, actuator, veh, seq, attempt_since>>

\* the vehicle state changes
Sense(Vehicles) ==
    /\ veh' \in Vehicles \ {veh}
    /\ out' = [NoCall EXCEPT !.op = "sense"]
    /\ UNCHANGED <<parachute, notify, actuator, now, seq, attempt_since, nticks>>

----------------------------------------------------------------------------
(* The whole program: every call, in any order *)

\* in cruise; rolled past the limit; rolled past the limit below alt_min;
\* on the ground
Vehicles ==
    {Cruise,
     [Cruise EXCEPT !.roll_sensor = -5500],
     [Cruise EXCEPT !.roll_sensor = -5500, !.relative_altitude = 5],
     [Cruise EXCEPT !.is_flying = FALSE, !.relative_altitude = 5,
                    !.control_mode = "MANUAL", !.takeoff_complete = FALSE]}

Init == InitWith({1}, {0}, {500}, {-1}, {1}, Vehicles)

SenseAny == Sense(Vehicles)

TickAny == TickBy({1000, 1999})

Next ==
    \/ CallEnabled
    \/ CallRelease
    \/ CallUpdate
    \/ CallManualRelease
    \/ CallParachuteCheck
    \/ TickAny
    \/ SenseAny

Spec == Init /\ [][Next]_vars

----------------------------------------------------------------------------
(* The release controller alone: enabled(), release(), update() *)

ReleaseTypes == {0, 10, 4}
Delays == {0, 500}

InitCtl == InitWith({0, 1}, ReleaseTypes, Delays, {-1}, {0}, {Cruise})

Tick == TickBy(TickSteps)

NextCtl == CallEnabled \/ CallRelease \/ CallUpdate \/ Tick

SpecCtl == InitCtl /\ [][NextCtl]_vars

----------------------------------------------------------------------------
(* Claims about the release controller *)

\* the trigger types update() drives an output for (relay 0..3, servo)
Supported(type) == type \in 0..3 \/ type = 10

\* C1: after release() at t0 on the enabled, idle controller, every
\* update() leaves the actuator OFF while elapsed < D, ON from the first
\* update() with elapsed >= D, and OFF from the first update() after that
\* with elapsed >= D + hold duration; this for every clock value t0.
C1_SequenceTiming ==
    (out.op = "update" /\ Supported(parachute.release_type)) =>
        /\ seq.phase = "pending" => actuator = "OFF"
        /\ seq.phase = "asserted" => actuator = "ON"
        /\ seq.phase = "done" => actuator = "OFF"

\* the same for sequences requested at a nonzero clock value
C1_SequenceTimingNonzero ==
    (out.op = "update" /\ Supported(parachute.release_type) /\ seq.t0 # 0) =>
        /\ seq.phase = "pending" => actuator = "OFF"
        /\ seq.phase = "asserted" => actuator = "ON"
        /\ seq.phase = "done" => actuator = "OFF"

\* C2: enabled(false) leaves release_time = 0, and the next update()
\* after it leaves the actuator OFF and release_in_progress clear.
C2_DisableRestoresOff ==
    [][(out.op = "enabled" /\ ~out.arg) =>
          /\ parachute.release_time = 0
          /\ out'.op = "update" =>
                (actuator' = "OFF" /\ ~parachute'.release_in_progress)]_vars

\* C3: while the controller is disabled, release() and update() change
\* neither released nor the actuator, issue no actuator command, and
\* release_time is and stays 0.
C3_DisabledReleaseIsNoOp ==
    [][(parachute.enabled <= 0 /\ out'.op \in {"release", "update"}) =>
          /\ parachute'.released = parachute.released
          /\ actuator' = actuator
          /\ out'.cmds = <<>>
          /\ parachute.release_time = 0
          /\ parachute'.release_time = 0]_vars

\* release() was called on the disabled controller with the actuator asserted
C3_Witness ==
    /\ out.op = "release"
    /\ parachute.enabled <= 0
    /\ parachute.released
    /\ actuator = "ON"

\* C4: a release() call while release_time # 0 leaves release_time as it was.
C4_ReleaseKeepsStamp ==
    [][(out'.op = "release" /\ parachute.release_time # 0) =>
          parachute'.release_time = parachute.release_time]_vars

\* release() was called again, later than the stamp, during the actuation
C4_Witness ==
    /\ out.op = "release"
    /\ parachute.release_time # 0
    /\ parachute.release_time # now
    /\ parachute.release_in_progress

----------------------------------------------------------------------------
(* Manual release: the pilot's command against flight state and altitude *)

\* ALT_MIN is 10 m in every configuration of the model; ALT_MAX is off (-1),
\* above it (100) or, misconfigured, below it (5)
AltMaxs == {-1, 5, 100}
Altitudes == {5, 10, 100, 150}

ManualVehicles ==
    {[Cruise EXCEPT !.relative_altitude = alt, !.is_flying = fly] :
        alt \in Altitudes, fly \in BOOLEAN}

InitManual == InitWith({0, 1}, {0}, {0, 500}, AltMaxs, {0}, ManualVehicles)

SenseManual == Sense(ManualVehicles)

TickManual == TickBy({1, 499})

NextManual ==
    CallEnabled \/ CallManualRelease \/ CallUpdate \/ TickManual \/ SenseManual

SpecManual == InitManual /\ [][NextManual]_vars

\* the manual release was called enabled, not yet released and airborne
\* (the call changes none of the three)
ManualArmed ==
    /\ out.op = "parachute_manual_release"
    /\ parachute.enabled # 0
    /\ ~parachute.released
    /\ veh.is_flying

\* C5: enabled, not released, airborne: a manual release below alt_min, or
\* above alt_max when alt_max >= 0, reports rejection and does not call
\* AP_Parachute::release().
C5_OutOfBoundsRejected ==
    (/\ ManualArmed
     /\ \/ veh.relative_altitude < parachute.alt_min
        \/ parachute.alt_max >= 0 /\ veh.relative_altitude > parachute.alt_max)
    => (~out.ret /\ out.rel = 0)

\* C6: a manual release on a disabled or already released controller is
\* rejected with no text; otherwise, when the vehicle is not flying, it is
\* rejected with "Not flying" at every altitude; in both cases
\* AP_Parachute::release() is not called and nothing of the controller changes.
C6_ManualCheckOrder ==
    [][out'.op = "parachute_manual_release" =>
          /\ (parachute.enabled = 0 \/ parachute.released) =>
                /\ ~out'.ret
                /\ out'.gcs = <<>>
                /\ out'.rel = 0
                /\ UNCHANGED <<parachute, notify, actuator>>
          /\ (parachute.enabled # 0 /\ ~parachute.released /\ ~veh.is_flying) =>
                /\ ~out'.ret
                /\ out'.gcs = <<"Parachute: Not flying">>
                /\ out'.rel = 0
                /\ UNCHANGED <<parachute, notify, actuator>>]_vars

\* rejected as not flying at an altitude above alt_max
C6_Witness ==
    /\ out.op = "parachute_manual_release"
    /\ parachute.enabled # 0 /\ ~parachute.released /\ ~veh.is_flying
    /\ parachute.alt_max >= 0 /\ veh.relative_altitude > parachute.alt_max
    /\ out.gcs = <<"Parachute: Not flying">>
    /\ ~out.ret

\* what AP_Parachute::release() leaves behind on an enabled controller
ManualAccepted ==
    /\ out'.ret
    /\ out'.rel = 1
    /\ parachute'.release_time =
          (IF parachute.release_time = 0 THEN now ELSE parachute.release_time)
    /\ parachute'.release_initiated

\* C7 as stated: enabled, not released, airborne: a manual release at
\* altitude = alt_min, or at altitude = alt_max when alt_max >= 0, reports
\* success and calls AP_Parachute::release().
C7_BoundaryAccepted ==
    [][(/\ out'.op = "parachute_manual_release"
        /\ parachute.enabled # 0 /\ ~parachute.released /\ veh.is_flying
        /\ \/ veh.relative_altitude = parachute.alt_min
           \/ parachute.alt_max >= 0 /\ veh.relative_altitude = parachute.alt_max)
       => ManualAccepted]_vars

\* C7 amended: the same when the two bounds are consistent, that is
\* alt_max < 0 or alt_min <= alt_max.
C7_BoundaryAcceptedConsistent ==
    [][(/\ out'.op = "parachute_manual_release"
        /\ parachute.enabled # 0 /\ ~parachute.released /\ veh.is_flying
        /\ parachute.alt_max < 0 \/ parachute.alt_min <= parachute.alt_max
        /\ \/ veh.relative_altitude = parachute.alt_min
           \/ parachute.alt_max >= 0 /\ veh.relative_altitude = parachute.alt_max)
       => ManualAccepted]_vars

\* accepted at altitude = alt_min with an upper bound configured
C7_Witness ==
    /\ ManualArmed
    /\ veh.relative_altitude = parachute.alt_min
    /\ parachute.alt_max >= parachute.alt_min
    /\ out.ret /\ out.rel = 1
    /\ parachute.release_time = now
    /\ parachute.release_initiated

----------------------------------------------------------------------------
(* The emergency check: gating, debounce and release attempts *)

\* roll, pitch and sink rate: level, or one of them at its emergency limit
\* (roll limit 4500 + margin 1000, pitch limit -2500 - margin 1000, sink 5)
Attitudes ==
    {[roll |-> 0, pitch |-> 0, sink |-> 0], [roll |-> -5500, pitch |-> 0, sink |-> 0],
     [roll |-> 0, pitch |-> -3500, sink |-> 0], [roll |-> 0, pitch |-> 0, sink |-> 5]}

\* AUTO, after takeoff, not landing: every test of lines 89-101 passes
EmergencyVehicles ==
    {[Cruise EXCEPT !.relative_altitude = alt, !.roll_sensor = a.roll,
                    !.pitch_sensor = a.pitch, !.sink_rate = a.sink] :
        alt \in {5, 50}, a \in Attitudes}

InitEmergency == InitWith({1}, {0}, {0, 500}, {-1}, {1}, EmergencyVehicles)

SenseEmergency == Sense(EmergencyVehicles)

TickEmergency == TickBy({1, 1000, 1999})

NextEmergency == CallParachuteCheck \/ TickEmergency \/ SenseEmergency

SpecEmergency == InitEmergency /\ [][NextEmergency]_vars

\* the conditions of the spec's gating list, altitude apart
GateClosed(p, v) ==
    \/ p.auto_enabled = 0
    \/ p.released
    \/ v.control_mode # "AUTO"
    \/ ~v.takeoff_complete
    \/ v.land_complete
    \/ v.nav_cmd = "NAV_LAND"

\* C8: on a check with gating passing: without deviation control_loss_ms is
\* reset to 0 and no release is attempted; with deviation control_loss_ms
\* keeps the clock of the first deviating check, no release is attempted and
\* emergency_start_ms is left alone while at most 1000 ms have passed since,
\* and once more than 1000 ms have passed the same check stamps
\* emergency_start_ms and attempts the release.
C8_Debounce ==
    [][(/\ out'.op = "parachute_check"
        /\ ~GateClosed(parachute', veh)
        /\ veh.relative_altitude >= parachute.alt_min)
       => IF within_limits(parachute, veh)
          THEN /\ parachute'.control_loss_ms = 0
               /\ ~out'.attempt
               /\ parachute'.emergency_start_ms = parachute.emergency_start_ms
          ELSE LET started == IF parachute.control_loss_ms = 0
                              THEN now ELSE parachute.control_loss_ms
               IN  /\ parachute'.control_loss_ms = started
                   /\ IF u32sub(now, started) > 1000
                      THEN out'.attempt /\ parachute'.emergency_start_ms = now
                      ELSE /\ ~out'.attempt
                           /\ out'.rel = 0
                           /\ parachute'.emergency_start_ms =
                                 parachute.emergency_start_ms]_vars

\* the release was attempted 1001 ms after the deviation began
C8_Witness ==
    /\ out.op = "parachute_check"
    /\ out.attempt
    /\ ~within_limits(parachute, veh)
    /\ u32sub(now, parachute.control_loss_ms) = 1001

\* C9: release attempts stop when 2000 ms have passed since the monitor
\* entered Emergency: no check attempts the release 2000 ms or more after
\* the first of an unbroken run of attempts.
C9_WindowExpires ==
    (out.op = "parachute_check" /\ out.attempt) =>
        u32sub(now, attempt_since) < PARACHUTE_EMERGENCY_DURATION_MS

----------------------------------------------------------------------------
(* The emergency check under every combination of the gating inputs *)

GatingVehicles ==
    {[Cruise EXCEPT !.control_mode = m, !.takeoff_complete = tk,
                    !.land_complete = ld, !.nav_cmd = nav,
                    !.relative_altitude = alt, !.roll_sensor = r] :
        m \in {"AUTO", "MANUAL"}, tk \in BOOLEAN, ld \in BOOLEAN,
        nav \in {"NAV_WAYPOINT", "NAV_LAND"}, alt \in {5, 50}, r \in {0, -5500}}

InitGating == InitWith({1}, {0}, {0}, {-1}, {0, 1}, GatingVehicles)

SenseGating == Sense(GatingVehicles)

TickGating == TickBy({1, 1000})

NextGating == CallParachuteCheck \/ TickGating \/ SenseGating

SpecGating == InitGating /\ [][NextGating]_vars

\* C10 as stated: a check on which a gating condition holds, altitude
\* below alt_min among them, leaves control_loss_ms = 0 and attempts no release.
C10_GatingResets ==
    (/\ out.op = "parachute_check"
     /\ GateClosed(parachute, veh) \/ veh.relative_altitude < parachute.alt_min)
    => (parachute.control_loss_ms = 0 /\ ~out.attempt /\ out.rel = 0)

\* C10 amended: the same for the gating conditions other than altitude; a
\* check below alt_min does not call AP_Parachute::release().
C10_GatingResetsNoAltitude ==
    /\ (out.op = "parachute_check" /\ GateClosed(parachute, veh))
          => (parachute.control_loss_ms = 0 /\ ~out.attempt /\ out.rel = 0)
    /\ (out.op = "parachute_check" /\ veh.relative_altitude < parachute.alt_min)
          => out.rel = 0

\* a check gated by the flight mode alone, in a roll beyond the limit, after
\* an earlier check had already entered emergency mode
C10_Witness ==
    /\ out.op = "parachute_check"
    /\ parachute.auto_enabled # 0 /\ ~parachute.released
    /\ veh.control_mode # "AUTO"
    /\ veh.takeoff_complete /\ ~veh.land_complete /\ veh.nav_cmd # "NAV_LAND"
    /\ ~within_limits(parachute, veh)
    /\ parachute.emergency_start_ms # 0
    /\ parachute.control_loss_ms = 0

----------------------------------------------------------------------------
(* The deviation test, on both sides of and at each threshold *)

\* roll limit 4500 + margin 1000 = 5500; pitch limit -2500 - margin 1000
\* = -3500; sink rate threshold 5
DeviationVehicles ==
    {[Cruise EXCEPT !.roll_sensor = r, !.pitch_sensor = q, !.sink_rate = k] :
        r \in {0, 5499, 5500, -5500, -5501},
        q \in {0, -3499, -3500, -3501},
        k \in {4, 5, 6}}

InitDeviation == InitWith({1}, {0}, {500}, {-1}, {1}, DeviationVehicles)

SenseDeviation == Sense(DeviationVehicles)

TickDeviation == TickBy({1, 1000})

NextDeviation == CallParachuteCheck \/ TickDeviation \/ SenseDeviation

SpecDeviation == InitDeviation /\ [][NextDeviation]_vars

\* what a check does when it takes the tick as a deviation (Dev) or not
TreatsAsDeviation(Dev) ==
    IF Dev
    THEN /\ parachute'.control_loss_ms =
               (IF parachute.control_loss_ms = 0 THEN now
                ELSE parachute.control_loss_ms)
         /\ parachute.control_loss_ms = 0 =>
               out'.gcs[2] = "Emergency: Starting to lose control"
    ELSE /\ parachute'.control_loss_ms = 0
         /\ out'.gcs = <<"Roll">>

\* C11 as stated: with gating passing the check takes the tick as a
\* deviation exactly when |roll| > roll limit + roll margin, or
\* pitch > pitch limit - pitch margin, or sink rate > sink-rate threshold.
C11_DeviationAsStated ==
    [][(out'.op = "parachute_check" /\ ~GateClosed(parachute', veh)) =>
          TreatsAsDeviation(
              \/ labs(veh.roll_sensor) >
                    veh.roll_limit_cd + parachute.emergency_roll_margin
              \/ veh.pitch_sensor >
                    veh.pitch_limit_min_cd - parachute.emergency_pitch_margin
              \/ veh.sink_rate > parachute.emergency_sink_rate)]_vars

\* C11 amended: with gating passing the check takes the tick as a deviation
\* exactly when |roll| >= roll limit + roll margin, or
\* pitch <= minimum pitch limit - pitch margin, or
\* sink rate >= sink-rate threshold.
C11_DeviationAtOrBeyond ==
    [][(out'.op = "parachute_check" /\ ~GateClosed(parachute', veh)) =>
          TreatsAsDeviation(
              \/ labs(veh.roll_sensor) >=
                    veh.roll_limit_cd + parachute.emergency_roll_margin
              \/ veh.pitch_sensor <=
                    veh.pitch_limit_min_cd - parachute.emergency_pitch_margin
              \/ veh.sink_rate >= parachute.emergency_sink_rate)]_vars

\* a check took a sink rate equal to the threshold, alone, as a deviation
C11_Witness ==
    /\ out.op = "parachute_check"
    /\ ~GateClosed(parachute, veh)
    /\ veh.roll_sensor = 0 /\ veh.pitch_sensor = 0
    /\ veh.sink_rate = parachute.emergency_sink_rate
    /\ parachute.control_loss_ms = now
    /\ now # 0

----------------------------------------------------------------------------
(* Claims about the whole program *)

\* the call issued an ON command to the relay or the servo
AssertedBy(o) == \E i \in 1..Len(o.cmds) : o.cmds[i].on

C13_ZeroIffIdle ==
    (parachute.release_time = 0) <=> Idle(parachute, actuator)

\* the same in the states an update() of the enabled controller leaves
C13_ZeroIffIdleAfterUpdate ==
    (out.op = "update" /\ parachute.enabled > 0) =>
        ((parachute.release_time = 0) <=> Idle(parachute, actuator))

----------------------------------------------------------------------------
(* The emergency check against the altitude bounds *)

\* level or rolled past the limit, below, at, between and above the bounds
BoundsVehicles ==
    {[Cruise EXCEPT !.relative_altitude = alt, !.roll_sensor = r] :
        alt \in {5, 10, 50, 100, 150}, r \in {0, -5500}}

InitBounds == InitWith({1}, {0}, {0, 500}, {-1, 100}, {1}, BoundsVehicles)

SenseBounds == Sense(BoundsVehicles)

TickBounds == TickBy({1, 1000})

NextBounds == CallParachuteCheck \/ TickBounds \/ SenseBounds

SpecBounds == InitBounds /\ [][NextBounds]_vars

\* C14: no parachute_check() calls AP_Parachute::release() on a tick where
\* the altitude is below alt_min, or above alt_max when alt_max >= 0.
C14_EmergencyWithinBounds ==
    (/\ out.op = "parachute_check"
     /\ \/ veh.relative_altitude < parachute.alt_min
        \/ parachute.alt_max >= 0 /\ veh.relative_altitude > parachute.alt_max)
    => out.rel = 0

\* the check attempted the release above alt_max and was turned down
C14_Witness ==
    /\ out.op = "parachute_check"
    /\ out.attempt
    /\ parachute.alt_max >= 0 /\ veh.relative_altitude > parachute.alt_max
    /\ out.gcs[Len(out.gcs)] = "Parachute: Too high"
    /\ out.rel = 0

----------------------------------------------------------------------------
(* The release controller under every kind of trigger type *)

\* a negative value, relay 0, 4 (between the relays and the servo), the
\* servo, and a value above the servo
TriggerTypes == {-1, 0, 4, 10, 11}

InitTrigger == InitWith({0, 1}, TriggerTypes, {0}, {-1}, {0}, {Cruise})

TickTrigger == TickBy({1, 1999})

NextTrigger == CallEnabled \/ CallRelease \/ CallUpdate \/ TickTrigger

SpecTrigger == InitTrigger /\ [][NextTrigger]_vars

\* update() on the same controller with trigger type relay 0
AsRelay0 == update([Here EXCEPT !.p.release_type = 0], now)

\* update() issues no command and moves its bookkeeping as for relay 0
NoCommandSameBookkeeping ==
    /\ out'.cmds = <<>>
    /\ actuator' = actuator
    /\ parachute'.release_in_progress = AsRelay0.p.release_in_progress
    /\ parachute'.released = AsRelay0.p.released
    /\ parachute'.release_time = AsRelay0.p.release_time
    /\ notify' = AsRelay0.notify

\* C15: for every trigger type that is neither relay 0..3 nor servo (10),
\* negative values included, update() issues no relay or servo command,
\* and release_in_progress, released, release_time and the notify flag
\* move as they do for a supported type.
C15_UnsupportedNoCommand ==
    [][(out'.op = "update" /\ ~Supported(parachute.release_type))
          => NoCommandSameBookkeeping]_vars

\* the same for the unsupported values above relay 3
C15_UnsupportedAboveRelays ==
    [][(/\ out'.op = "update"
        /\ ~Supported(parachute.release_type)
        /\ parachute.release_type > AP_PARACHUTE_TRIGGER_TYPE_RELAY_3)
          => NoCommandSameBookkeeping]_vars

----------------------------------------------------------------------------
(* The sequence and the debounce while the clock wraps *)

WrapVehicles == {Cruise, [Cruise EXCEPT !.roll_sensor = -5500]}

InitWrap == InitWith({1}, {0}, {0, 500}, {-1}, {1}, WrapVehicles)

SenseWrap == Sense(WrapVehicles)

TickWrap == TickBy({1, 1000, 1999})

NextWrap ==
    CallRelease \/ CallUpdate \/ CallParachuteCheck \/ TickWrap \/ SenseWrap

SpecWrap == InitWrap /\ [][NextWrap]_vars

\* C16: elapsed time is (now - start) modulo 2^32: a sequence stamped with
\* a nonzero t0 has the actuator OFF until the first update() with
\* (now - t0) mod 2^32 >= D, ON from then until the first update() with
\* (now - t0) mod 2^32 >= D + hold duration and OFF after it, and a check
\* of a running debounce attempts the release exactly when
\* (now - control_loss_ms) mod 2^32 > 1000, on either side of the wrap.
C16_WrapSafe ==
    [][/\ (out'.op = "update" /\ seq'.t0 # 0) =>
              /\ seq'.phase = "pending" => actuator' = "OFF"
              /\ seq'.phase = "asserted" => actuator' = "ON"
              /\ seq'.phase = "done" => actuator' = "OFF"
       /\ (/\ out'.op = "parachute_check"
           /\ ~GateClosed(parachute', veh)
           /\ veh.relative_altitude >= parachute.alt_min
           /\ ~within_limits(parachute, veh)
           /\ parachute.control_loss_ms # 0) =>
              (out'.attempt <=>
                 (now - parachute.control_loss_ms + UINT32_MOD) % UINT32_MOD
                     > PARACHUTE_CHECK_TRIGGER_MS)]_vars

\* the actuator was asserted after the wrap for a request stamped before it
C16_Witness ==
    /\ out.op = "update"
    /\ seq.phase = "asserted"
    /\ seq.t0 # 0
    /\ now < seq.t0
    /\ actuator = "ON"
    /\ parachute.release_in_progress

\* the release was attempted after the wrap for a debounce begun before it
C16_DebounceAcrossWrap ==
    /\ out.op = "parachute_check"
    /\ out.attempt
    /\ parachute.control_loss_ms # 0
    /\ now < parachute.control_loss_ms

\* the actuator was de-asserted after the wrap
C16_DoneAcrossWrap ==
    /\ out.op = "update"
    /\ seq.phase = "done"
    /\ seq.t0 # 0
    /\ now < seq.t0
    /\ actuator = "OFF"

----------------------------------------------------------------------------
(* The release controller with a negative release delay *)

NegativeDelays == {-1, -500}

InitNegDelay == InitWith({0, 1}, {0, 10}, NegativeDelays, {-1}, {0}, {Cruise})

TickNegDelay == TickBy({1, 1000, 1999})

NextNegDelay == CallEnabled \/ CallRelease \/ CallUpdate \/ TickNegDelay

SpecNegDelay == InitNegDelay /\ [][NextNegDelay]_vars

\* C17: with delay_ms < 0 the delay is 0: the first update() after a
\* release() on the enabled, idle controller asserts the actuator, whatever
\* the elapsed time, and the first update() after that with elapsed >= hold
\* duration de-asserts it.
C17_NegativeDelayIsZero ==
    (out.op = "update" /\ parachute.delay_ms < 0) =>
        /\ seq.phase # "pending"
        /\ seq.phase = "asserted" => (actuator = "ON" /\ parachute.released)
        /\ seq.phase = "done" =>
              (actuator = "OFF" /\ ~parachute.release_in_progress)

\* the same for requests made at a nonzero clock value
C17_NegativeDelayIsZeroNonzero ==
    (out.op = "update" /\ parachute.delay_ms < 0 /\ seq.t0 # 0) =>
        /\ seq.phase # "pending"
        /\ seq.phase = "asserted" => (actuator = "ON" /\ parachute.released)
        /\ seq.phase = "done" =>
              (actuator = "OFF" /\ ~parachute.release_in_progress)

\* asserted by the update() in the same millisecond as the request
C17_AssertedAtOnce ==
    /\ out.op = "update"
    /\ parachute.delay_ms < 0
    /\ seq.phase = "asserted"
    /\ seq.t0 = now
    /\ now # 0
    /\ actuator = "ON"

----------------------------------------------------------------------------
(* The release controller run by the scheduler from boot: update() is
   called at least once in every clock period and the clock never stops *)

\* the state at boot, AP_HAL::millis() = 0
InitLive ==
    /\ parachute = Parachute0(1, 0, 0, 10, -1, 0)
    /\ notify = 0
    /\ actuator = "OFF"
    /\ now = 0
    /\ veh = Cruise
    /\ out = NoCall
    /\ seq = NoSeq
    /\ attempt_since = -1
    /\ nticks = 0

\* the clock moves on by a quarter of its range, more than the hold
\* duration, once update() has run in the current period
TickLive ==
    /\ out.op = "update"
    /\ now' = u32add(now, UINT32_MOD \div 4)
    /\ out' = [NoCall EXCEPT !.op = "tick"]
    /\ UNCHANGED <<parachute, notify, actuator, veh, seq, attempt_since, nticks>>

NextLive == CallEnabled \/ CallRelease \/ CallUpdate \/ TickLive

SpecLive ==
    InitLive /\ [][NextLive]_vars /\ WF_vars(CallUpdate) /\ SF_vars(TickLive)

\* release() has just been called on the enabled, idle controller
Requested == out.op = "release" /\ seq.phase = "pending"

\* update() has just asserted the actuator and set released
AssertedByUpdate ==
    /\ out.op = "update"
    /\ AssertedBy(out)
    /\ actuator = "ON"
    /\ parachute.released

\* update() has just de-asserted the actuator and returned to idle
DeassertedByUpdate ==
    /\ out.op = "update"
    /\ Idle(parachute, actuator)

EnabledCalled == out.op = "enabled"

\* C18: with update() called again and again, the clock advancing and no
\* further enabled() call, every release() on the enabled controller with
\* release_time = 0 leads to an update() that asserts the actuator and sets
\* released, and that update() leads to one that de-asserts the actuator
\* and returns release_time to 0.
C18_ReleaseLiveness ==
    /\ Requested ~> (AssertedByUpdate \/ EnabledCalled)
    /\ AssertedByUpdate ~> (DeassertedByUpdate \/ EnabledCalled)

\* the same for requests made at a nonzero clock value
C18_ReleaseLivenessNonzero ==
    /\ (Requested /\ seq.t0 # 0) ~> (AssertedByUpdate \/ EnabledCalled)
    /\ AssertedByUpdate ~> (DeassertedByUpdate \/ EnabledCalled)

\* a sequence ran to its end
C18_SequenceCompleted ==
    DeassertedByUpdate /\ parachute.released /\ seq.phase = "done"

----------------------------------------------------------------------------
(* The vehicle paths alone: release() is reached only through
   parachute_manual_release() and parachute_check() *)

InitVehicle == InitWith({1}, {0}, {500}, {-1}, {1}, Vehicles)

SenseVehicle == Sense(Vehicles)

TickVehicle == TickBy({1000, 1999})

NextVehicle ==
    \/ CallEnabled
    \/ CallUpdate
    \/ CallManualRelease
    \/ CallParachuteCheck
    \/ TickVehicle
    \/ SenseVehicle

SpecVehicle == InitVehicle /\ [][NextVehicle]_vars

\* C19: with release() reached only through the vehicle paths, a step
\* asserts the actuator only while released is false and leaves released
\* true, released stays true over every step (enabled(false) and
\* enabled(true) included), so the actuator is asserted at most once; and
\* once released is true neither path calls release().
C19_SingleDeployment ==
    [][/\ AssertedBy(out') => (~parachute.released /\ parachute'.released)
       /\ parachute.released => parachute'.released
       /\ (/\ out'.op \in {"parachute_manual_release", "parachute_check"}
           /\ parachute'.released) => out'.rel = 0]_vars

\* after the deployment the check sees the deviation and leaves release()
\* alone
C19_Witness ==
    /\ out.op = "parachute_check"
    /\ parachute.released
    /\ parachute.enabled > 0
    /\ Idle(parachute, actuator)
    /\ ~within_limits(parachute, veh)
    /\ veh.relative_altitude >= parachute.alt_min
    /\ out.rel = 0

----------------------------------------------------------------------------
(* enabled() within the whole program *)

\* C20: enabled(on) writes the enabled flag and release_time (to 0) and
\* nothing else: released, release_in_progress, release_initiated, the
\* notify flag, the actuator and both emergency timers keep their values,
\* for on = TRUE and on = FALSE; and enabled(on) called again on the
\* state it leaves changes nothing.
C20_EnabledFrame ==
    [][out'.op = "enabled" =>
          /\ parachute' = [parachute EXCEPT
                              !.enabled = IF out'.arg THEN 1 ELSE 0,
                              !.release_time = 0]
          /\ notify' = notify
          /\ actuator' = actuator
          /\ out'.cmds = <<>>
          /\ [parachute' EXCEPT !.enabled = IF out'.arg THEN 1 ELSE 0,
                                !.release_time = 0] = parachute']_vars

\* enabled(false) in the middle of an actuation, with both emergency timers
\* running
C20_Witness ==
    /\ out.op = "enabled"
    /\ ~out.arg
    /\ parachute.enabled = 0
    /\ parachute.release_time = 0
    /\ parachute.released
    /\ parachute.release_in_progress
    /\ parachute.release_initiated
    /\ parachute.control_loss_ms # 0
    /\ parachute.emergency_start_ms # 0
    /\ notify = 1
    /\ actuator = "ON"

====
